---- MODULE Spec2Model ----
(***************************************************************************)
(* rustmania: chart parsing (notedata.rs), position-to-time conversion and *)
(* wife scoring (timingdata.rs).                                           *)
(*                                                                         *)
(* Numbers.  A Rational32 is a reduced fraction [n, d] with d > 0.  An f64 *)
(* is an IEEE 754 double, every operation rounded to nearest-even as the   *)
(* hardware rounds it; i64 and usize values keep their 64 bits.  TLC's own *)
(* integers have 32 bits, so mantissas and 64-bit values are sequences of  *)
(* 15-bit limbs.                                                           *)
(***************************************************************************)
EXTENDS Integers, Sequences, FiniteSets, TLC

VARIABLES
    \* ---- TimingData::from_chartdata ----
    chart,          \* data: &ChartData, a sequence of measures of <<inner_time, row>>
    meta_bpms,      \* meta.bpms: sequence of <<measure, position, tempo>>
    meta_offset,    \* meta.offset: Option<f64>, seconds
    rate,           \* rate: f64
    overflow_checks,\* the build profile: TRUE if integer overflow panics (debug)
    pc,             \* position in from_chartdata
    bpms,           \* the resolved local `bpms`: records [m, p, t, start]
    i,              \* index of the resolve loop, 0-based as in the source
    bpms_pos,       \* number of items the iterator bpms.into_iter() has yielded
    current_bpm,    \* Option: <<>> before the walk, <<segment>> after
    next_bpm,       \* Option<segment>
    measure_index,  \* enumerate() index of the measure being walked
    row_index,      \* number of rows of that measure already converted
    output,         \* [Vec<GameplayInfo>; 4], columns 0..3
    \* ---- TimingData<OffsetInfo>::add / calculate_score ----
    notes,          \* [Vec<OffsetInfo>; 4]
    add_panicked,   \* TRUE once a call of add has panicked
    score,          \* Option<f64>: what calculate_score returned since the last add
    \* ---- OffsetInfo::wife ----
    w_self,         \* the OffsetInfo wife is called on
    w_ts,           \* ts
    w_ret,          \* Option<f64>: the value returned
    powf,           \* the build's f64::powf(2.0, x), on the arguments the run passes
    \* ---- parse_main_block ----
    contents,       \* the NOTES body, a sequence of characters
    parsed          \* Option<Vec<Vec<(Fraction, NoteRow)>>>

vars == <<chart, meta_bpms, meta_offset, rate, overflow_checks, pc, bpms, i, bpms_pos,
          current_bpm, next_bpm, measure_index, row_index, output, notes,
          add_panicked, score, w_self, w_ts, w_ret, powf, contents, parsed>>

timingVars == <<chart, meta_bpms, meta_offset, rate, overflow_checks, pc, bpms, i,
                bpms_pos, current_bpm, next_bpm, measure_index, row_index, output>>
scoreVars == <<notes, add_panicked, score>>
wifeVars == <<w_self, w_ts, w_ret, powf>>
parseVars == <<contents, parsed>>

----------------------------------------------------------------------------
(* Bounds of the model.                                                    *)
MaxMeasures == 2    \* measures of a chart
MaxRows == 3        \* rows of a measure
MaxSegments == 3    \* tempo changes of a chart
MaxAdds == 3        \* calls of add
MaxOffsetSteps == 5 \* hit offsets are multiples of 35 ms up to this many
MaxLines == 4       \* lines of a NOTES body after its header

----------------------------------------------------------------------------
(* Option<T> as a sequence of at most one element.                         *)
None == <<>>
Some(x) == <<x>>
IsSome(o) == Len(o) = 1
Unwrap(o) == o[1]
UnwrapOr(o, dflt) == IF IsSome(o) THEN o[1] ELSE dflt

----------------------------------------------------------------------------
(* Rational32 (num_rational) and Fraction: exact reduced fractions.        *)
Abs(x) == IF x < 0 THEN -x ELSE x

RECURSIVE GCD(_, _)
GCD(a, b) == IF b = 0 THEN a ELSE GCD(b, a % b)

\* Ratio::new: reduced, denominator positive.
Ratio(n, d) ==
    LET g == GCD(Abs(n), Abs(d))
        s == IF d < 0 THEN -1 ELSE 1
    IN  [n |-> (s * n) \div g, d |-> (s * d) \div g]

RSub(a, b) == Ratio(a.n * b.d - b.n * a.d, a.d * b.d)
RLe(a, b) == a.n * b.d <= b.n * a.d

\* Ratio::fract: the fractional part, with the sign of the number.
Fract(a) == IF a.n >= 0 THEN Ratio(a.n % a.d, a.d) ELSE Ratio(-((-a.n) % a.d), a.d)

----------------------------------------------------------------------------
(* Natural numbers of any size (the mantissas of f64 arithmetic, usize and *)
(* i64 values): little-endian sequences of limbs below 2^15, no leading    *)
(* zero limb; <<>> is 0.                                                   *)
Base == 2 ^ 15

Rest(a) == IF a = <<>> THEN <<>> ELSE Tail(a)
Limb(a, k) == IF k <= Len(a) THEN a[k] ELSE 0

RECURSIVE NNorm(_)
NNorm(a) ==
    IF a = <<>> THEN a
    ELSE IF a[Len(a)] = 0 THEN NNorm(SubSeq(a, 1, Len(a) - 1)) ELSE a

RECURSIVE NFromInt(_)
NFromInt(k) == IF k = 0 THEN <<>> ELSE <<k % Base>> \o NFromInt(k \div Base)

RECURSIVE NAddC(_, _, _)
NAddC(a, b, c) ==
    IF a = <<>> /\ b = <<>> THEN (IF c = 0 THEN <<>> ELSE <<c>>)
    ELSE LET s == Limb(a, 1) + Limb(b, 1) + c
         IN  <<s % Base>> \o NAddC(Rest(a), Rest(b), s \div Base)

NAdd(a, b) == NAddC(a, b, 0)

\* a - b for a >= b.
RECURSIVE NSubB(_, _, _)
NSubB(a, b, c) ==
    IF a = <<>> THEN <<>>
    ELSE LET d == a[1] - Limb(b, 1) - c
         IN  <<d % Base>> \o NSubB(Tail(a), Rest(b), IF d < 0 THEN 1 ELSE 0)

NSub(a, b) == NNorm(NSubB(a, b, 0))

RECURSIVE NCmpAt(_, _, _)
NCmpAt(a, b, k) ==
    IF k = 0 THEN 0
    ELSE IF a[k] > b[k] THEN 1
    ELSE IF a[k] < b[k] THEN -1
    ELSE NCmpAt(a, b, k - 1)

\* -1, 0 or 1 as a is below, equal to or above b.
NCmp(a, b) ==
    IF Len(a) > Len(b) THEN 1
    ELSE IF Len(a) < Len(b) THEN -1
    ELSE NCmpAt(a, b, Len(a))

RECURSIVE NMulSmallC(_, _, _)
NMulSmallC(a, k, c) ==
    IF a = <<>> THEN (IF c = 0 THEN <<>> ELSE <<c>>)
    ELSE LET p == a[1] * k + c
         IN  <<p % Base>> \o NMulSmallC(Tail(a), k, p \div Base)

\* a * k for 0 <= k <= Base.
NMulSmall(a, k) == IF k = 0 THEN <<>> ELSE NMulSmallC(a, k, 0)

RECURSIVE NMul(_, _)
NMul(a, b) ==
    IF a = <<>> \/ b = <<>> THEN <<>>
    ELSE NAdd(NMulSmall(a, b[1]),
              IF Tail(b) = <<>> THEN <<>> ELSE <<0>> \o NMul(a, Tail(b)))

\* Quotient and remainder of a by k, 0 < k <= Base, from limb j downward with
\* the remainder r of the limbs above.
RECURSIVE NDivSmallAt(_, _, _, _)
NDivSmallAt(a, k, j, r) ==
    IF j = 0 THEN [q |-> <<>>, r |-> r]
    ELSE LET cur == r * Base + a[j]
             low == NDivSmallAt(a, k, j - 1, cur % k)
         IN  [q |-> Append(low.q, cur \div k), r |-> low.r]

NDivSmall(a, k) ==
    LET res == NDivSmallAt(a, k, Len(a), 0)
    IN  [q |-> NNorm(res.q), r |-> res.r]

\* a * 2^n and floor(a / 2^n).
NShl(a, n) ==
    IF a = <<>> THEN <<>>
    ELSE [k \in 1..(n \div 15) |-> 0] \o NMulSmall(a, 2 ^ (n % 15))

NShr(a, n) ==
    IF Len(a) <= n \div 15 THEN <<>>
    ELSE NDivSmall(SubSeq(a, (n \div 15) + 1, Len(a)), 2 ^ (n % 15)).q

RECURSIVE BitLenSmall(_)
BitLenSmall(k) == IF k = 0 THEN 0 ELSE 1 + BitLenSmall(k \div 2)

\* The number of bits of a: 0 for 0, else floor(log2 a) + 1.
NBitLen(a) == IF a = <<>> THEN 0 ELSE 15 * (Len(a) - 1) + BitLenSmall(a[Len(a)])

NBit(a, k) == (Limb(a, (k \div 15) + 1) \div (2 ^ (k % 15))) % 2

RECURSIVE TrailingZerosSmall(_)
TrailingZerosSmall(k) == IF k % 2 = 1 THEN 0 ELSE 1 + TrailingZerosSmall(k \div 2)

\* The number of trailing zero bits of a # 0, from limb j upward.
RECURSIVE NTrailingZerosAt(_, _)
NTrailingZerosAt(a, j) ==
    IF a[j] = 0 THEN 15 + NTrailingZerosAt(a, j + 1) ELSE TrailingZerosSmall(a[j])

NTrailingZeros(a) == NTrailingZerosAt(a, 1)

\* The largest d in lo..hi with b * d <= r, given b * lo <= r.
RECURSIVE NDigit(_, _, _, _)
NDigit(r, b, lo, hi) ==
    IF lo = hi THEN lo
    ELSE LET mid == (lo + hi + 1) \div 2
         IN  IF NCmp(NMulSmall(b, mid), r) <= 0
             THEN NDigit(r, b, mid, hi)
             ELSE NDigit(r, b, lo, mid - 1)

\* Quotient and remainder of a by b # 0 (long division), from limb j downward
\* with the remainder r of the limbs above.
RECURSIVE NDivLimbs(_, _, _, _)
NDivLimbs(a, b, j, r) ==
    IF j = 0 THEN [q |-> <<>>, r |-> r]
    ELSE LET cur == NNorm(<<a[j]>> \o r)
             d == NDigit(cur, b, 0, Base - 1)
             low == NDivLimbs(a, b, j - 1, NSub(cur, NMulSmall(b, d)))
         IN  [q |-> Append(low.q, d), r |-> low.r]

NDivMod(a, b) ==
    IF Len(b) = 1
    THEN LET res == NDivSmall(a, b[1]) IN [q |-> res.q, r |-> NFromInt(res.r)]
    ELSE LET res == NDivLimbs(a, b, Len(a), <<>>) IN [q |-> NNorm(res.q), r |-> res.r]

----------------------------------------------------------------------------
(* f64: IEEE 754 binary64 with round-to-nearest-even.  A finite value is   *)
(* (-1)^s * m * 2^e with m odd, or a zero (m = 0, e = 0) of sign s: 0.0    *)
(* and -0.0 are two values, equal under == and told apart by a division.   *)
F64(s, m, e) == [k |-> "fin", s |-> s, m |-> m, e |-> e]
Zero == F64(0, <<>>, 0)
NegZero == F64(1, <<>>, 0)
SignedZero(s) == F64(s, <<>>, 0)
IsZero(a) == a.k = "fin" /\ a.m = <<>>
Inf(s) == [k |-> "inf", s |-> s, m |-> <<>>, e |-> 0]
NaN == [k |-> "nan", s |-> 0, m |-> <<>>, e |-> 0]

Max(x, y) == IF x >= y THEN x ELSE y
Min(x, y) == IF x <= y THEN x ELSE y

\* The f64 (-1)^s * M * 2^E for M of at most 53 bits and E >= -1074: infinite
\* when the value is 2^1024 or more.
Pack(s, M, E) ==
    IF M = <<>> THEN SignedZero(s)
    ELSE IF E + NBitLen(M) > 1024 THEN Inf(s)
    ELSE LET tz == NTrailingZeros(M) IN F64(s, NShr(M, tz), E + tz)

\* Round to nearest, ties to even: q, or q + 1, as the dropped part compares
\* with one half (half is -1, 0 or 1; sticky: bits were dropped before).
RoundUp(q, half, sticky) ==
    IF half > 0 \/ (half = 0 /\ (sticky \/ NBit(q, 0) = 1)) THEN NAddC(q, <<>>, 1) ELSE q

\* The f64 nearest to (-1)^s * (M + f) * 2^E, where 0 < f < 1 if sticky and
\* f = 0 if not; with sticky, M has at least 55 bits.
FRound(s, M, E, sticky) ==
    LET qexp == Max(E + NBitLen(M) - 53, -1074)
        q == NShr(M, qexp - E)
    IN  IF M = <<>> THEN SignedZero(s)
        ELSE IF qexp <= E THEN Pack(s, M, E)
        ELSE Pack(s, RoundUp(q, NCmp(NSub(M, NShl(q, qexp - E)), NShl(<<1>>, qexp - E - 1)),
                             sticky), qexp)

\* The magnitude of an i32 k (|i32::MIN| = 2^31 included).
NAbs(k) == IF k < 0 THEN NAddC(NFromInt(-(k + 1)), <<>>, 1) ELSE NFromInt(k)

\* `k as f64` for an i32 k, and for a natural number.
FFromInt(k) == FRound(IF k < 0 THEN 1 ELSE 0, NAbs(k), 0, FALSE)
FFromNat(a) == FRound(0, a, 0, FALSE)

FNeg(a) == IF a.k = "nan" THEN a ELSE [a EXCEPT !.s = 1 - a.s]

\* The exponent just above the leading bit of a finite non-zero a.
Top(a) == a.e + NBitLen(a.m)

\* b with its magnitude replaced by a power of two far below the last bit of
\* a, when b is that small: the rounded sum is the same.
Tiny(a, b) == IF Top(a) - Top(b) > 64 THEN F64(b.s, <<1>>, Top(a) - 70) ELSE b

\* The sum of (-1)^sa * Ma * 2^E and (-1)^sb * Mb * 2^E.
AddAligned(sa, Ma, sb, Mb, E) ==
    IF sa = sb THEN FRound(sa, NAdd(Ma, Mb), E, FALSE)
    ELSE IF NCmp(Ma, Mb) = 0 THEN Zero
    ELSE IF NCmp(Ma, Mb) > 0 THEN FRound(sa, NSub(Ma, Mb), E, FALSE)
    ELSE FRound(sb, NSub(Mb, Ma), E, FALSE)

\* a + b for finite non-zero a and b, on their common exponent.
AddFinite(a, b) ==
    AddAligned(a.s, NShl(a.m, a.e - Min(a.e, b.e)), b.s, NShl(b.m, b.e - Min(a.e, b.e)),
               Min(a.e, b.e))

FAdd(a, b) ==
    IF a.k = "nan" \/ b.k = "nan" THEN NaN
    ELSE IF a.k = "inf" THEN (IF b.k = "inf" /\ b.s # a.s THEN NaN ELSE a)
    ELSE IF b.k = "inf" THEN b
    ELSE IF a.m = <<>> /\ b.m = <<>> THEN (IF a.s = b.s THEN a ELSE Zero)
    ELSE IF a.m = <<>> THEN b
    ELSE IF b.m = <<>> THEN a
    ELSE AddFinite(Tiny(b, a), Tiny(a, b))

FSub(a, b) == FAdd(a, FNeg(b))

FMul(a, b) ==
    LET s == (a.s + b.s) % 2
    IN  IF a.k = "nan" \/ b.k = "nan" THEN NaN
        ELSE IF a.k = "inf" \/ b.k = "inf"
        THEN (IF IsZero(a) \/ IsZero(b) THEN NaN ELSE Inf(s))
        ELSE FRound(s, NMul(a.m, b.m), a.e + b.e, FALSE)

FDiv(a, b) ==
    LET s == (a.s + b.s) % 2
    IN  IF a.k = "nan" \/ b.k = "nan" THEN NaN
        ELSE IF a.k = "inf" THEN (IF b.k = "inf" THEN NaN ELSE Inf(s))
        ELSE IF b.k = "inf" THEN SignedZero(s)
        ELSE IF b.m = <<>> THEN (IF a.m = <<>> THEN NaN ELSE Inf(s))
        ELSE IF a.m = <<>> THEN SignedZero(s)
        ELSE LET sh == Max(0, NBitLen(b.m) + 56 - NBitLen(a.m))
                 res == NDivMod(NShl(a.m, sh), b.m)
             IN  FRound(s, res.q, a.e - sh - b.e, res.r # <<>>)

\* a == b, a < b and a <= b as f64 compare them (false when either is NaN;
\* 0.0 == -0.0).
FEq(a, b) == a.k # "nan" /\ b.k # "nan" /\ (a = b \/ (IsZero(a) /\ IsZero(b)))

FLt(a, b) ==
    /\ a.k # "nan" /\ b.k # "nan" /\ ~FEq(a, b)
    /\ LET d == FSub(b, a) IN d.k # "nan" /\ d.s = 0 /\ ~IsZero(d)

FLe(a, b) == FEq(a, b) \/ FLt(a, b)

----------------------------------------------------------------------------
(* i64 and usize values: a sign and a magnitude of any size.               *)
Int64(neg, mag) == [neg |-> neg, mag |-> mag]

I64FromInt(k) == Int64(k < 0, NFromInt(IF k < 0 THEN -k ELSE k))

\* i32::MAX and i32::MIN.
I32_MAX == 2147483647
I32_MIN == -I32_MAX - 1

\* 2^63 and 2^64.
Two63 == NShl(<<1>>, 63)
Two64 == NShl(<<1>>, 64)

I64_MAX == Int64(FALSE, NSub(Two63, <<1>>))
I64_MIN == Int64(TRUE, Two63)

\* `x as i64`: truncation toward zero, saturating; NaN becomes 0.
AsI64(x) ==
    IF x.k = "nan" THEN I64FromInt(0)
    ELSE IF x.k = "inf" THEN (IF x.s = 1 THEN I64_MIN ELSE I64_MAX)
    ELSE IF x.m = <<>> \/ Top(x) <= 0 THEN I64FromInt(0)
    ELSE IF Top(x) > 63 THEN (IF x.s = 1 THEN I64_MIN ELSE I64_MAX)
    ELSE LET mag == IF x.e >= 0 THEN NShl(x.m, x.e) ELSE NShr(x.m, -x.e)
         IN  Int64(x.s = 1, mag)

----------------------------------------------------------------------------
(* 2.0_f64.powf(x).  powf is the pow of the platform's libm, or its exp2   *)
(* where the compiler rewrites pow(2.0, x): neither is correctly rounded,  *)
(* and the two differ from each other in the last bit where 2^x lies       *)
(* almost midway between two f64.  The outcomes of a call are the f64      *)
(* nearest to a number within PowSlack of 2^x; which of them a build       *)
(* returns is the build's choice (the variable powf).  2^x itself is       *)
(* 2^n * e^(f * ln 2) with n = floor(x), in fixed point with 90 fractional *)
(* bits.                                                                   *)

\* floor(ln 2 * 2^90)
Ln2 == <<3790, 24143, 30618, 31289, 1533, 22713>>

RECURSIVE NToInt(_)
NToInt(a) == IF a = <<>> THEN 0 ELSE a[1] + Base * NToInt(Tail(a))

\* acc + term + term * t / n + term * t^2 / (n (n + 1)) + ..., all in fixed point.
RECURSIVE ExpSeries(_, _, _, _)
ExpSeries(t, term, n, acc) ==
    IF term = <<>> THEN acc
    ELSE ExpSeries(t, NDivSmall(NShr(NMul(term, t), 90), n).q, n + 1, NAdd(acc, term))

\* The error a libm allows itself beyond the half unit of a correct rounding:
\* one sixteenth of a unit in the last place of a result in [1, 2), as a
\* fixed-point number with 90 fractional bits (the pow and exp2 of glibc
\* document errors a few hundredths of a unit above the half).
PowSlack == NShl(<<1>>, 34)

\* The f64 nearest to R * 2^(n - 90), to (R - PowSlack) * 2^(n - 90) and to
\* (R + PowSlack) * 2^(n - 90): one value, or two neighbours.
NearTo(R, n) ==
    { FRound(0, R, n - 90, TRUE), FRound(0, NSub(R, PowSlack), n - 90, TRUE),
      FRound(0, NAdd(R, PowSlack), n - 90, TRUE) }

\* The values 2.0_f64.powf(x) can return.
Pow2(x) ==
    IF x.k = "nan" THEN {NaN}
    ELSE IF x.k = "inf" THEN {IF x.s = 0 THEN Inf(0) ELSE Zero}
    ELSE IF x.m = <<>> THEN {F64(0, <<1>>, 0)}
    ELSE IF Top(x) > 11 THEN {IF x.s = 0 THEN Inf(0) ELSE Zero}
    ELSE IF x.e >= 0
    THEN {FRound(0, <<1>>, (IF x.s = 0 THEN 1 ELSE -1) * NToInt(NShl(x.m, x.e)), FALSE)}
    ELSE LET mag == IF x.e >= -90 THEN NShl(x.m, x.e + 90) ELSE NShr(x.m, -90 - x.e)
             whole == NShr(mag, 90)
             frac == NSub(mag, NShl(whole, 90))
             n == IF x.s = 0 THEN NToInt(whole)
                  ELSE IF frac = <<>> THEN -NToInt(whole)
                  ELSE -NToInt(whole) - 1
             f == IF x.s = 0 \/ frac = <<>> THEN frac ELSE NSub(NShl(<<1>>, 90), frac)
             t == NShr(NMul(f, Ln2), 90)
         IN  NearTo(ExpSeries(t, NShl(<<1>>, 90), 1, <<>>), n)

\* The powf of a build on the arguments args: one outcome for each.
PowfBuilds(args) ==
    { f \in [args -> UNION { Pow2(x) : x \in args }] : \A x \in args : f[x] \in Pow2(x) }

\* fn value(fraction: Rational32) -> f64
value(fraction) == FDiv(FFromInt(fraction.n), FFromInt(fraction.d))

\* a - (b as usize) for a usize a and an i32 b: the difference modulo 2^64, and
\* whether the subtraction overflowed.  A negative b casts to 2^64 - |b|.
UsizeSub(a, b) ==
    LET au == NFromInt(a)
        bu == IF b >= 0 THEN NFromInt(b) ELSE NSub(Two64, NAbs(b))
    IN  IF NCmp(au, bu) >= 0
        THEN [overflow |-> FALSE, val |-> NSub(au, bu)]
        ELSE [overflow |-> TRUE, val |-> NSub(NAdd(au, Two64), bu)]

\* a - b for two i32: the difference modulo 2^32 in -2^31..2^31 - 1, and
\* whether the subtraction overflowed.
I32Sub(a, b) ==
    IF b < 0 /\ a > I32_MAX + b
    THEN [overflow |-> TRUE, val |-> (a - I32_MAX - 1) - (b + I32_MAX + 1)]
    ELSE IF b > 0 /\ a < I32_MIN + b
    THEN [overflow |-> TRUE, val |-> (a + I32_MAX + 1) - (b - I32_MAX - 1)]
    ELSE [overflow |-> FALSE, val |-> a - b]

----------------------------------------------------------------------------
(* Inputs of from_chartdata.                                               *)

NoteTypes == {"Tap", "Hold", "HoldEnd", "Roll", "Mine", "Lift", "Fake"}

Note(t, c) == [note |-> t, col |-> c]

\* The rows a chart is built from: row.notes() yields (NoteType, column index).
\* Column indices 4 and 5 are outside the playfield.
RowPalette ==
    << <<Note("Tap", 0)>>,
       <<Note("Hold", 0), Note("Mine", 4), Note("Lift", 3)>>,
       <<Note("Roll", 0), Note("Fake", 2), Note("Tap", 5)>> >>

RowOf(m, n) == RowPalette[((m + n) % Len(RowPalette)) + 1]

\* A measure of k rows as the parser builds it: row n at Position n/k.
MeasureOf(m, k) == [n \in 1..k |-> <<Ratio(n - 1, k), RowOf(m, n - 1)>>]

\* The number of rows of each measure of a chart.
ChartShapes == UNION { [1..len -> 0..MaxRows] : len \in 0..MaxMeasures }

Charts == { [m \in 1..Len(ks) |-> MeasureOf(m - 1, ks[m])] : ks \in ChartShapes }

\* Where a tempo change may sit: (measure index, position within the measure).
\* The first is 2^31 - 1 measures before measure 0 and 2^31 before measure 1.
TempoPositions ==
    << <<-I32_MAX, Ratio(0, 1)>>, <<0, Ratio(0, 1)>>, <<0, Ratio(1, 3)>>,
       <<0, Ratio(1, 2)>>, <<1, Ratio(0, 1)>> >>

Tempos == {FFromInt(100), FFromInt(120), FFromInt(480)}

\* The elements of a set of integers in ascending order.
SortedSeq(S) ==
    CHOOSE s \in [1..Cardinality(S) -> S] :
        \A a, b \in 1..Cardinality(S) : a < b => s[a] < s[b]

\* A choice of at most MaxSegments of the positions, each with a tempo.
TempoChoices ==
    UNION { [S -> Tempos] :
            S \in { T \in SUBSET (1..Len(TempoPositions)) : Cardinality(T) <= MaxSegments } }

\* meta.bpms: (i32, Rational32, f64) tuples, positions strictly ascending, tempos
\* positive; the empty list is what a BPMS tag that failed to parse leaves.
TempoLists ==
    { LET s == SortedSeq(DOMAIN f)
      IN  [k \in 1..Len(s) |->
              <<TempoPositions[s[k]][1], TempoPositions[s[k]][2], f[s[k]]>>] :
        f \in TempoChoices }

Rates == {FFromInt(1), FFromInt(2)}

\* meta.offset in seconds: absent, or -1/16 s.
Offsets == {None, Some(FDiv(FFromInt(-1), FFromInt(16)))}

----------------------------------------------------------------------------
(* TimingData::from_chartdata                                              *)

EmptyOutput == [c \in 0..3 |-> <<>>]

Segment(x, y, z, start) == [m |-> x, p |-> y, t |-> z, start |-> start]

\* meta.offset.unwrap_or(0.0) * 1000.0
OffsetMs(off) == FMul(UnwrapOr(off, Zero), FFromInt(1000))

\* The right-hand side of the assignment to bpms[i].3 (prev is bpms[i - 1]);
\* dm is the i32 bpms[i].0 - bpms[i - 1].0.
SegmentStart(prev, this, dm) ==
    FAdd(prev.start,
         FDiv(FMul(FAdd(FFromInt(dm), value(RSub(this.p, prev.p))), FFromInt(240000)),
              prev.t))

\* Iterator::next on bpms.into_iter(), pos items already yielded.
IterNext(seq, pos) == IF pos < Len(seq) THEN Some(seq[pos + 1]) ELSE None

\* The test that promotes next_bpm to current_bpm before a row is converted.
Advances(bpm, mi, inner_time) ==
    \/ mi > bpm.m
    \/ (mi = bpm.m /\ RLe(bpm.p, Fract(inner_time)))

\* row_time; diff is the usize measure_index - current_bpm.0 as usize.
RowTime(cur, diff, inner_time, r) ==
    FDiv(FAdd(cur.start,
              FDiv(FMul(FFromInt(240000),
                        FAdd(FFromNat(diff), value(RSub(inner_time, cur.p)))),
                   cur.t)),
         r)

\* The sprite_finder call: the opaque payload is modelled as its arguments.
Sprite(mi, inner_time, note, column_index) ==
    [m |-> mi, pos |-> inner_time, note |-> note, col |-> column_index]

GameplayInfo(time, sprite, note) == [time |-> time, sprite |-> sprite, note |-> note]

\* The loop over row.notes(): push each note whose column exists.
RECURSIVE PushNotes(_, _, _, _, _)
PushNotes(out, row, time, mi, inner_time) ==
    IF row = <<>> THEN out
    ELSE LET n == Head(row)
             info == GameplayInfo(time, Sprite(mi, inner_time, n.note, n.col), n.note)
             out2 == IF n.col \in DOMAIN out
                     THEN [out EXCEPT ![n.col] = Append(@, info)]
                     ELSE out
         IN  PushNotes(out2, Tail(row), time, mi, inner_time)

TimingInit ==
    /\ chart \in Charts
    /\ meta_bpms \in TempoLists
    /\ meta_offset \in Offsets
    /\ rate \in Rates
    /\ overflow_checks \in BOOLEAN
    /\ pc = "start"
    /\ bpms = <<>>
    /\ i = 0
    /\ bpms_pos = 0
    /\ current_bpm = None
    /\ next_bpm = None
    /\ measure_index = 0
    /\ row_index = 0
    /\ output = EmptyOutput

\* Lines 78-87: the offset, the copy of meta.bpms, and the early return.
Begin ==
    /\ pc = "start"
    /\ LET copy == [k \in 1..Len(meta_bpms) |->
                       Segment(meta_bpms[k][1], meta_bpms[k][2], meta_bpms[k][3], Zero)]
       IN  \/ /\ copy # <<>>
              /\ bpms' = [copy EXCEPT ![1].start = OffsetMs(meta_offset)]
              /\ i' = 1
              /\ pc' = "resolve"
              /\ output' = output
           \/ /\ copy = <<>>
              /\ bpms' = copy
              /\ i' = i
              /\ output' = EmptyOutput
              /\ pc' = "done"
    /\ UNCHANGED <<chart, meta_bpms, meta_offset, rate, overflow_checks, bpms_pos,
                   current_bpm, next_bpm, measure_index, row_index>>

\* Lines 88-93: one iteration of `for i in 1..bpms.len()`.
ResolveStep ==
    /\ pc = "resolve"
    /\ i < Len(bpms)
    /\ LET dm == I32Sub(bpms[i + 1].m, bpms[i].m)
       IN  \* bpms[i].0 - bpms[i - 1].0: in a build with overflow checks an
           \* overflow panics, in one without the difference wraps.
           \/ /\ ~(dm.overflow /\ overflow_checks)
              /\ bpms' = [bpms EXCEPT
                            ![i + 1].start = SegmentStart(bpms[i], bpms[i + 1], dm.val)]
              /\ i' = i + 1
              /\ pc' = pc
           \/ /\ dm.overflow /\ overflow_checks
              /\ bpms' = bpms
              /\ i' = i
              /\ pc' = "panicked"
    /\ UNCHANGED <<chart, meta_bpms, meta_offset, rate, overflow_checks, bpms_pos,
                   current_bpm, next_bpm, measure_index, row_index, output>>

\* Lines 94-97: the two cursors and the empty output.
StartWalk ==
    /\ pc = "resolve"
    /\ i >= Len(bpms)
    /\ current_bpm' = Some(Unwrap(IterNext(bpms, 0)))
    /\ next_bpm' = IterNext(bpms, 1)
    /\ bpms_pos' = 2
    /\ output' = EmptyOutput
    /\ measure_index' = 0
    /\ row_index' = 0
    /\ pc' = "walk"
    /\ UNCHANGED <<chart, meta_bpms, meta_offset, rate, overflow_checks, bpms, i>>

\* Lines 99-123: the body of the loop over the rows of a measure.
ConvertRow ==
    /\ pc = "walk"
    /\ measure_index < Len(chart)
    /\ row_index < Len(chart[measure_index + 1])
    /\ LET inner_time == chart[measure_index + 1][row_index + 1][1]
           row == chart[measure_index + 1][row_index + 1][2]
           adv == IsSome(next_bpm) /\ Advances(Unwrap(next_bpm), measure_index, inner_time)
           cur == IF adv THEN Unwrap(next_bpm) ELSE Unwrap(current_bpm)
           diff == UsizeSub(measure_index, cur.m)
       IN  /\ current_bpm' = Some(cur)
           /\ next_bpm' = IF adv THEN IterNext(bpms, bpms_pos) ELSE next_bpm
           /\ bpms_pos' = IF adv THEN bpms_pos + 1 ELSE bpms_pos
           \* measure_index - current_bpm.0 as usize: in a build with overflow
           \* checks an overflow panics, in one without the difference wraps.
           /\ \/ /\ ~(diff.overflow /\ overflow_checks)
                 /\ output' = PushNotes(output, row,
                                        AsI64(RowTime(cur, diff.val, inner_time, rate)),
                                        measure_index, inner_time)
                 /\ row_index' = row_index + 1
                 /\ pc' = pc
              \/ /\ diff.overflow /\ overflow_checks
                 /\ output' = output
                 /\ row_index' = row_index
                 /\ pc' = "panicked"
    /\ UNCHANGED <<chart, meta_bpms, meta_offset, rate, overflow_checks, bpms, i,
                   measure_index>>

\* Line 98: the outer loop moves to the next measure.
NextMeasure ==
    /\ pc = "walk"
    /\ measure_index < Len(chart)
    /\ row_index >= Len(chart[measure_index + 1])
    /\ measure_index' = measure_index + 1
    /\ row_index' = 0
    /\ UNCHANGED <<chart, meta_bpms, meta_offset, rate, overflow_checks, pc, bpms, i,
                   bpms_pos, current_bpm, next_bpm, output>>

\* Line 125: the measures are exhausted.
Finish ==
    /\ pc = "walk"
    /\ measure_index >= Len(chart)
    /\ pc' = "done"
    /\ UNCHANGED <<chart, meta_bpms, meta_offset, rate, overflow_checks, bpms, i,
                   bpms_pos, current_bpm, next_bpm, measure_index, row_index, output>>

----------------------------------------------------------------------------
(* OffsetInfo::wife and OffsetInfo::max_points                             *)

\* OffsetInfo(Option<i64>, NoteType); the offsets of the model fit in 31 bits.
OffsetInfo(offset, note) == [offset |-> offset, note |-> note]

\* The argument of powf in wife: -1.0 * maxms * maxms / (avedeviation * avedeviation).
exponent(maxms, ts) ==
    LET avedeviation == FMul(FFromInt(95), ts)
    IN  FDiv(FMul(FMul(FFromInt(-1), maxms), maxms), FMul(avedeviation, avedeviation))

\* Mutant of curve: an early hit (a negative offset) is not penalised.
curve_early_flat(maxms, ts) ==
    LET y == FSub(FFromInt(1), powf[exponent(maxms, ts)])
        yy == FMul(y, y)
    IN  IF maxms.s = 1 THEN FFromInt(2)
        ELSE FSub(FMul(FFromInt(10), FSub(FFromInt(1), yy)), FFromInt(8))

\* Lines 38-42 of wife: the decay curve of a hit at offset maxms.
curve(maxms, ts) ==
    LET y == FSub(FFromInt(1), powf[exponent(maxms, ts)])
        yy == FMul(y, y)
    IN  FSub(FMul(FFromInt(10), FSub(FFromInt(1), yy)), FFromInt(8))

\* Mutant of wife: the two arms of the Mine match are swapped.
wife_mine_swapped(self, ts) ==
    IF self.note \in {"Tap", "Hold", "Roll", "Lift"}
    THEN IF ~IsSome(self.offset) THEN FFromInt(-8)
         ELSE curve(FFromInt(Unwrap(self.offset)), ts)
    ELSE IF self.note \in {"Fake", "HoldEnd"} THEN Zero
    ELSE IF IsSome(self.offset) THEN Zero ELSE FFromInt(-8)

\* fn wife(self, ts: f64) -> f64
wife(self, ts) ==
    IF self.note \in {"Tap", "Hold", "Roll", "Lift"}
    THEN IF ~IsSome(self.offset) THEN FFromInt(-8)
         ELSE curve(FFromInt(Unwrap(self.offset)), ts)
    ELSE IF self.note \in {"Fake", "HoldEnd"} THEN Zero
    ELSE IF IsSome(self.offset) THEN FFromInt(-8) ELSE Zero

\* Mutant of max_points: a Mine counts like a Tap.
max_points_mine_counts(self) ==
    IF self.note \in {"Tap", "Hold", "Roll", "Lift", "Mine"} THEN FFromInt(2) ELSE Zero

\* fn max_points(self) -> f64
max_points(self) ==
    IF self.note \in {"Tap", "Hold", "Roll", "Lift"} THEN FFromInt(2) ELSE Zero

\* The arguments wife passes to powf when it is called with ts on the records.
PowfArgs(records, ts) ==
    { exponent(FFromInt(Unwrap(r.offset)), ts) :
        r \in { q \in records : q.note \in {"Tap", "Hold", "Roll", "Lift"} /\ IsSome(q.offset) } }

\* Hit offsets in milliseconds, both signs.
HitOffsets == { 35 * k : k \in (0 - MaxOffsetSteps)..MaxOffsetSteps }

WifeInputs == { OffsetInfo(o, t) : o \in {None} \cup { Some(x) : x \in HitOffsets },
                                   t \in NoteTypes }

\* ts: 0.5, 1.0 and 2.0, the values of the repository's tests.
TimingScales == {F64(0, <<1>>, -1), FFromInt(1), FFromInt(2)}

WifeInit ==
    /\ w_self \in WifeInputs
    /\ w_ts \in TimingScales
    /\ w_ret = None
    /\ powf \in PowfBuilds(PowfArgs({w_self}, w_ts))

\* A call of wife on w_self.
CallWife ==
    /\ w_ret = None
    /\ w_ret' = Some(wife(w_self, w_ts))
    /\ UNCHANGED <<w_self, w_ts, powf>>

----------------------------------------------------------------------------
(* TimingData<OffsetInfo>::add and calculate_score                         *)

\* The kinds of record of a play session, and the records as a set.
RecordKinds ==
    << OffsetInfo(None, "Tap"), OffsetInfo(Some(0), "Tap"), OffsetInfo(Some(90), "Roll"),
       OffsetInfo(Some(-45), "Hold"), OffsetInfo(Some(0), "Mine") >>

ScoreRecords == { RecordKinds[k] : k \in 1..Len(RecordKinds) }

\* The fold of + over s from acc, left to right.
RECURSIVE SumFrom(_, _)
SumFrom(acc, s) == IF s = <<>> THEN acc ELSE SumFrom(FAdd(acc, Head(s)), Tail(s))

\* Iterator::sum::<f64>(): the fold of + from -0.0, the additive identity of
\* f64 (the sum of no term, and of terms that are all -0.0, is -0.0).
sum(s) == SumFrom(NegZero, s)

\* self.columns().flat_map(|x| x.iter()): the columns one after the other.
RECURSIVE Flatten(_, _)
Flatten(cols, c) == IF c > 3 THEN <<>> ELSE cols[c] \o Flatten(cols, c + 1)

\* pub fn calculate_score(&self) -> f64
calculate_score(cols) ==
    LET all == Flatten(cols, 0)
        max == sum([k \in 1..Len(all) |-> max_points(all[k])])
        current_points == sum([k \in 1..Len(all) |-> wife(all[k], FFromInt(1))])
    IN  FDiv(current_points, max)

\* pub fn add(&mut self, offset: T, column: usize): the new self.notes, or None
\* when self.notes[column] panics (index out of bounds). The panic unwinds out
\* of add before the push, so self.notes is as it was.
add(cols, offset, column) ==
    IF column \in DOMAIN cols THEN Some([cols EXCEPT ![column] = Append(@, offset)])
    ELSE None

ScoreInit ==
    /\ notes = [c \in 0..3 |-> <<>>]
    /\ add_panicked = FALSE
    /\ score = None
    /\ powf \in PowfBuilds(PowfArgs(ScoreRecords, FFromInt(1)))

\* The columns add is called with: the first, the last, and one past the end
\* of self.notes.
AddColumns == {0, 3, 4}

\* A call of add, on a fresh TimingData or after any earlier call, one that
\* panicked included.
Add ==
    /\ Len(Flatten(notes, 0)) < MaxAdds
    /\ \E offset \in ScoreRecords, column \in AddColumns :
          LET res == add(notes, offset, column)
          IN  \/ /\ IsSome(res)
                 /\ notes' = Unwrap(res)
                 /\ add_panicked' = add_panicked
              \/ /\ ~IsSome(res)
                 /\ notes' = notes
                 /\ add_panicked' = TRUE
    /\ score' = None

\* A call of calculate_score, after any calls of add.
CalculateScore ==
    /\ score = None
    /\ score' = Some(calculate_score(notes))
    /\ UNCHANGED <<notes, add_panicked>>

----------------------------------------------------------------------------
(* parse_main_block, parse_measure, parse_line, char_to_notetype           *)

\* str::lines: the pieces between line feeds, a carriage return before the
\* line feed dropped with it; a final piece is a line only if it is not empty.
RECURSIVE Lines(_, _)
Lines(text, line) ==
    IF text = <<>> THEN (IF line = <<>> THEN <<>> ELSE <<line>>)
    ELSE IF Head(text) = "\n"
    THEN <<IF line # <<>> /\ line[Len(line)] = "\r"
           THEN SubSeq(line, 1, Len(line) - 1) ELSE line>>
         \o Lines(Tail(text), <<>>)
    ELSE Lines(Tail(text), Append(line, Head(text)))

\* Iterator::skip
Skip(seq, k) == IF Len(seq) <= k THEN <<>> ELSE SubSeq(seq, k + 1, Len(seq))

\* slice::split(|&x| x == ","): the runs between separator lines, empty runs kept.
RECURSIVE Split(_, _)
Split(ls, run) ==
    IF ls = <<>> THEN <<run>>
    ELSE IF Head(ls) = <<",">> THEN <<run>> \o Split(Tail(ls), <<>>)
    ELSE Split(Tail(ls), Append(run, Head(ls)))

\* fn char_to_notetype(character: char) -> Option<NoteType>
char_to_notetype(character) ==
    CASE character = "0" -> None
      [] character = "1" -> Some("Tap")
      [] character = "2" -> Some("Hold")
      [] character = "4" -> Some("Roll")
      [] character = "M" -> Some("Mine")
      [] character = "L" -> Some("Lift")
      [] character = "F" -> Some("Fake")
      [] OTHER -> None

\* fn parse_line(contents: &&str) -> NoteRow
RECURSIVE parse_line_from(_, _)
parse_line_from(line, index) ==
    IF index >= Len(line) THEN <<>>
    ELSE LET note == char_to_notetype(line[index + 1])
         IN  (IF IsSome(note) THEN <<Note(Unwrap(note), index)>> ELSE <<>>)
             \o parse_line_from(line, index + 1)

parse_line(line) == parse_line_from(line, 0)

\* fn parse_measure(measure: &[&str]) -> Vec<(Fraction, NoteRow)>
parse_measure(measure) ==
    LET division == Len(measure)
    IN  [k \in 1..Len(measure) |-> <<Ratio(k - 1, division), parse_line(measure[k])>>]

\* fn parse_main_block(contents: String) -> Vec<Vec<(Fraction, NoteRow)>>
parse_main_block(text) ==
    LET lines == Skip(Lines(text, <<>>), 5)
        measures == Split(lines, <<>>)
    IN  [m \in 1..Len(measures) |-> parse_measure(measures[m])]

\* The lines a NOTES body is built from, each without its line feed: a
\* separator, a separator ending in a carriage return, a blank line, two rows.
LineKinds ==
    { <<",">>, <<",", "\r">>, <<>>, <<"1", "0", "0", "0">>, <<"0", "M", "3", "F">> }

\* The five header lines of a NOTES body (type, author, difficulty, meter, radar).
HeaderLines == << <<"d">>, <<>>, <<"H">>, <<"9">>, <<"0", ",", "0">> >>

RECURSIVE Join(_)
Join(ls) == IF ls = <<>> THEN <<>> ELSE Head(ls) \o <<"\n">> \o Join(Tail(ls))

Bodies == UNION { [1..len -> LineKinds] : len \in 0..MaxLines }

ParseInit ==
    /\ contents \in { Join(HeaderLines \o body) : body \in Bodies }
    /\ parsed = None

\* The NOTES arm of parse_tag.
ParseMainBlock ==
    /\ parsed = None
    /\ parsed' = Some(parse_main_block(contents))
    /\ UNCHANGED contents

----------------------------------------------------------------------------
(* Specifications: one per unit, the other units idle.                     *)

TimingIdle ==
    /\ chart = <<>> /\ meta_bpms = <<>> /\ meta_offset = None /\ rate = FFromInt(1)
    /\ overflow_checks = TRUE
    /\ pc = "idle" /\ bpms = <<>> /\ i = 0 /\ bpms_pos = 0 /\ current_bpm = None
    /\ next_bpm = None /\ measure_index = 0 /\ row_index = 0 /\ output = EmptyOutput

ScoreIdle == notes = [c \in 0..3 |-> <<>>] /\ add_panicked = FALSE /\ score = None

WifeIdle == w_self = OffsetInfo(None, "Tap") /\ w_ts = FFromInt(1) /\ w_ret = None

\* No call of powf: the build's powf on no argument.
PowfIdle == powf \in PowfBuilds({})

ParseIdle == contents = <<>> /\ parsed = None

Init == TimingInit /\ ScoreIdle /\ WifeIdle /\ PowfIdle /\ ParseIdle

Next ==
    \/ Begin /\ UNCHANGED <<scoreVars, wifeVars, parseVars>>
    \/ ResolveStep /\ UNCHANGED <<scoreVars, wifeVars, parseVars>>
    \/ StartWalk /\ UNCHANGED <<scoreVars, wifeVars, parseVars>>
    \/ ConvertRow /\ UNCHANGED <<scoreVars, wifeVars, parseVars>>
    \/ NextMeasure /\ UNCHANGED <<scoreVars, wifeVars, parseVars>>
    \/ Finish /\ UNCHANGED <<scoreVars, wifeVars, parseVars>>

Spec == Init /\ [][Next]_vars

\* from_chartdata on the charts without measures: the tempo map is resolved and
\* the walk ends at once.
ResolveSpecInit ==
    TimingInit /\ chart = <<>> /\ ScoreIdle /\ WifeIdle /\ PowfIdle /\ ParseIdle

ResolveNext ==
    \/ Begin /\ UNCHANGED <<scoreVars, wifeVars, parseVars>>
    \/ ResolveStep /\ UNCHANGED <<scoreVars, wifeVars, parseVars>>
    \/ StartWalk /\ UNCHANGED <<scoreVars, wifeVars, parseVars>>
    \/ Finish /\ UNCHANGED <<scoreVars, wifeVars, parseVars>>

ResolveSpec == ResolveSpecInit /\ [][ResolveNext]_vars

ScoreSpecInit == ScoreInit /\ TimingIdle /\ WifeIdle /\ ParseIdle

ScoreNext ==
    \/ Add /\ UNCHANGED <<timingVars, wifeVars, parseVars>>
    \/ CalculateScore /\ UNCHANGED <<timingVars, wifeVars, parseVars>>

ScoreSpec == ScoreSpecInit /\ [][ScoreNext]_vars

WifeSpecInit == WifeInit /\ TimingIdle /\ ScoreIdle /\ ParseIdle

WifeNext == CallWife /\ UNCHANGED <<timingVars, scoreVars, parseVars>>

WifeSpec == WifeSpecInit /\ [][WifeNext]_vars

ParseSpecInit == ParseInit /\ TimingIdle /\ ScoreIdle /\ WifeIdle /\ PowfIdle

ParseNext == ParseMainBlock /\ UNCHANGED <<timingVars, scoreVars, wifeVars>>

ParseSpec == ParseSpecInit /\ [][ParseNext]_vars

----------------------------------------------------------------------------
(* Exact arithmetic, for the values the claims state.                      *)

RAdd(a, b) == Ratio(a.n * b.d + b.n * a.d, a.d * b.d)
RMul(a, b) == Ratio(a.n * b.n, a.d * b.d)
RDiv(a, b) == Ratio(a.n * b.d, a.d * b.n)

\* Truncation toward zero.
Trunc(r) == IF r.n >= 0 THEN r.n \div r.d ELSE -((-r.n) \div r.d)

\* The exact value of a finite f64 of small magnitude.
FToRatio(x) ==
    Ratio((IF x.s = 1 THEN -1 ELSE 1) * NToInt(x.m) * (IF x.e >= 0 THEN 2 ^ x.e ELSE 1),
          IF x.e < 0 THEN 2 ^ (-x.e) ELSE 1)

----------------------------------------------------------------------------
(* Properties of from_chartdata (specifications Spec and ResolveSpec).     *)

\* x <= y for two i64 values.
I64Le(x, y) ==
    IF x.neg /\ ~y.neg THEN TRUE
    ELSE IF ~x.neg /\ y.neg THEN FALSE
    ELSE IF x.neg THEN NCmp(x.mag, y.mag) >= 0
    ELSE NCmp(x.mag, y.mag) <= 0

\* (measure, position) order of two places of a chart.
PlaceLe(m1, p1, m2, p2) == m1 < m2 \/ (m1 = m2 /\ RLe(p1, p2))

FirstChangeAtMeasure0 == meta_bpms # <<>> /\ meta_bpms[1][1] = 0

FirstChangeAtOrigin == FirstChangeAtMeasure0 /\ meta_bpms[1][2] = Ratio(0, 1)

\* from_chartdata has returned or aborted.
Ended == pc \in {"done", "panicked"}

\* The notes of the chart that belong to column c, in chart order, each with
\* the measure and Position of its row.
RECURSIVE RowNotes(_, _, _, _)
RowNotes(row, m, pos, c) ==
    IF row = <<>> THEN <<>>
    ELSE (IF Head(row).col = c
          THEN <<[m |-> m, pos |-> pos, note |-> Head(row).note, col |-> c]>>
          ELSE <<>>) \o RowNotes(Tail(row), m, pos, c)

RECURSIVE MeasureNotes(_, _, _, _)
MeasureNotes(measure, m, k, c) ==
    IF k > Len(measure) THEN <<>>
    ELSE RowNotes(measure[k][2], m, measure[k][1], c) \o MeasureNotes(measure, m, k + 1, c)

RECURSIVE ChartNotes(_, _)
ChartNotes(m, c) ==
    IF m >= Len(chart) THEN <<>>
    ELSE MeasureNotes(chart[m + 1], m, 1, c) \o ChartNotes(m + 1, c)

\* C1: each of the four column sequences is ordered by non-decreasing time, a
\* note emitted later in a column never has a smaller time than one emitted
\* earlier.  Stated on the tempo maps whose first change is at measure 0, where
\* the subtraction of C3 cannot overflow.
C1_ColumnsAscendInTime ==
    FirstChangeAtMeasure0 =>
        \A c \in 0..3 : \A a, b \in 1..Len(output[c]) :
            a < b => I64Le(output[c][a].time, output[c][b].time)

\* C2: with a non-empty tempo map the call emits exactly one timed note per chart
\* note of column < 4, in the sequence of its column, in chart order, carrying
\* the note's type and the time of its row (one time per row); notes of column
\* 4 or more leave no entry.
C2_OneTimedNotePerNote ==
    (meta_bpms # <<>> /\ Ended) =>
        /\ \A c \in 0..3 :
              LET want == ChartNotes(0, c)
              IN  /\ Len(output[c]) = Len(want)
                  /\ \A k \in 1..Len(want) :
                        /\ output[c][k].sprite = want[k]
                        /\ output[c][k].note = want[k].note
        /\ \A c1, c2 \in 0..3 : \A a \in 1..Len(output[c1]), b \in 1..Len(output[c2]) :
              (/\ output[c1][a].sprite.m = output[c2][b].sprite.m
               /\ output[c1][a].sprite.pos = output[c2][b].sprite.pos)
                  => output[c1][a].time = output[c2][b].time

\* C3: the call never aborts, and whenever a row's time has been computed the
\* current segment's measure index is not greater than the row's measure index.
C3_NoUnderflow ==
    /\ pc # "panicked"
    /\ (pc = "walk" /\ row_index > 0) => Unwrap(current_bpm).m <= measure_index

\* b - a as an f64 for two i32 a <= b, without the limits of i32.
MeasureDelta(a, b) ==
    IF a < 0 /\ b >= 0 THEN FFromNat(NAdd(NFromInt(b), NAbs(a))) ELSE FFromInt(b - a)

\* C4: the resolved segments have non-decreasing start times: the first starts
\* at the global offset in milliseconds, each later one at the previous start
\* plus the positional delta times 240000 divided by the previous tempo.
C4_SegmentStartsAscend ==
    (meta_bpms # <<>> /\ pc \in {"resolve", "walk", "done"}) =>
        /\ bpms[1].start =
              (IF meta_offset = None THEN Zero
               ELSE FMul(Unwrap(meta_offset), FFromInt(1000)))
        /\ \A k \in 2..i :
              LET prev == bpms[k - 1]
                  delta == FAdd(MeasureDelta(prev.m, bpms[k].m),
                                value(RSub(bpms[k].p, prev.p)))
              IN  /\ FLe(prev.start, bpms[k].start)
                  /\ bpms[k].start =
                        FAdd(prev.start, FDiv(FMul(delta, FFromInt(240000)), prev.t))

\* C5: with the single segment (measure 0, position 0, tempo T) and rate 1, a
\* note of the row at measure m and Position p has time
\* offset_ms + 240000 * (m + p) / T truncated to an integer; for T = 120 a
\* note at measure 1, Position 0 is at offset_ms + 2000.
C5_SingleSegmentTime ==
    (/\ Len(meta_bpms) = 1
     /\ meta_bpms[1][1] = 0
     /\ meta_bpms[1][2] = Ratio(0, 1)
     /\ rate = FFromInt(1)) =>
        \A c \in 0..3 : \A k \in 1..Len(output[c]) :
            LET e == output[c][k]
                off == FToRatio(OffsetMs(meta_offset))
                t == RAdd(off, RDiv(RMul(Ratio(240000, 1),
                                         RAdd(Ratio(e.sprite.m, 1), e.sprite.pos)),
                                    FToRatio(meta_bpms[1][3])))
            IN  /\ e.time = I64FromInt(Trunc(t))
                /\ (/\ meta_bpms[1][3] = FFromInt(120)
                    /\ e.sprite.m = 1
                    /\ e.sprite.pos = Ratio(0, 1)) =>
                       e.time = I64FromInt(Trunc(RAdd(off, Ratio(2000, 1))))

\* C10: for a tempo map that starts at measure 0, position 0, the segment used
\* for a row is the last resolved segment whose (measure, position) is at or
\* before the row's (measure, Position).
C10_SegmentIsLastAtOrBeforeRow ==
    (FirstChangeAtOrigin /\ pc = "walk" /\ row_index > 0) =>
        LET inner_time == chart[measure_index + 1][row_index][1]
            atOrBefore == { k \in 1..Len(bpms) :
                              PlaceLe(bpms[k].m, bpms[k].p, measure_index, inner_time) }
            last == CHOOSE k \in atOrBefore : \A j \in atOrBefore : j <= k
        IN  Unwrap(current_bpm) = bpms[last]

----------------------------------------------------------------------------
(* Properties of the scoring engine (ScoreSpec, WifeSpec).                 *)

\* The records added so far, column 0 first, each column in call order.
AddedRecords == Flatten(notes, 0)

\* How many of the added records are the record r.
CountAdded(r) == Cardinality({ k \in 1..Len(AddedRecords) : AddedRecords[k] = r })

\* The added records arranged by kind: a function of their multiset only.
RECURSIVE ByKind(_)
ByKind(k) ==
    IF k > Len(RecordKinds) THEN <<>>
    ELSE [j \in 1..CountAdded(RecordKinds[k]) |-> RecordKinds[k]] \o ByKind(k + 1)

ClaimedMaxPoints(r) ==
    IF r.note \in {"Tap", "Hold", "Roll", "Lift"} THEN FFromInt(2) ELSE Zero

\* (sum of wife) / (sum of the claimed max_points) over the records of s, the
\* sums taken in the order of s.
RatioOfSums(s) ==
    FDiv(sum([k \in 1..Len(s) |-> wife(s[k], FFromInt(1))]),
         sum([k \in 1..Len(s) |-> ClaimedMaxPoints(s[k])]))

\* The wife value of r is a whole number: r was never hit or hit at offset 0.
WholeValued(r) == r.offset \in {None, Some(0)}

\* C6 as claimed: calculate_score is the sum of wife over the added records
\* divided by the sum of their max_points (2 for Tap, Hold, Roll, Lift, else
\* 0), a function of the multiset of added records and of nothing else, not of
\* the order of the calls or of the columns; one Tap at offset 0 scores 1, one
\* Tap never hit scores -4.
C6_ScoreDependsOnMultisetOnly ==
    IsSome(score) =>
        /\ Unwrap(score) = RatioOfSums(ByKind(1))
        /\ AddedRecords = <<OffsetInfo(Some(0), "Tap")>> => Unwrap(score) = FFromInt(1)
        /\ AddedRecords = <<OffsetInfo(None, "Tap")>> => Unwrap(score) = FFromInt(-4)

\* C6 as amended: after any sequence of calls of add, calculate_score is the
\* f64 sum of wife over the added records divided by the f64 sum of their
\* max_points (2 for Tap, Hold, Roll, Lift, else 0), both sums taken column by
\* column and within a column in call order; when every added record was never
\* hit or hit at offset 0 the result depends on the multiset of records only;
\* one Tap at offset 0 scores 1, one Tap never hit scores -4.
C6_ScoreIsRatioOfColumnOrderSums ==
    IsSome(score) =>
        /\ Unwrap(score) = RatioOfSums(notes[0] \o notes[1] \o notes[2] \o notes[3])
        /\ \A t \in NoteTypes, o \in {None, Some(0)} :
              max_points(OffsetInfo(o, t)) = ClaimedMaxPoints(OffsetInfo(o, t))
        /\ (\A k \in 1..Len(AddedRecords) : WholeValued(AddedRecords[k]))
              => Unwrap(score) = RatioOfSums(ByKind(1))
        /\ AddedRecords = <<OffsetInfo(Some(0), "Tap")>> => Unwrap(score) = FFromInt(1)
        /\ AddedRecords = <<OffsetInfo(None, "Tap")>> => Unwrap(score) = FFromInt(-4)

\* C6 witness: a hit Mine in column 3, a Tap at offset 0 and then a Tap never
\* hit in column 0 (calculate_score meets the Mine last), and a call of add
\* that panicked and added nothing: (2 - 8 - 8) / 4.
C6_Witness ==
    /\ add_panicked
    /\ notes[3] = <<OffsetInfo(Some(0), "Mine")>>
    /\ notes[0] = <<OffsetInfo(Some(0), "Tap"), OffsetInfo(None, "Tap")>>
    /\ score = Some(FDiv(FFromInt(-7), FFromInt(2)))

\* C7: wife is -8 for a Tap, Hold, Roll or Lift with no offset, 0 for Fake and
\* HoldEnd with or without an offset, -8 for a Mine with an offset and 0 for a
\* Mine without.
C7_WifeOfUnscoredKinds ==
    IsSome(w_ret) =>
        /\ (w_self.note \in {"Tap", "Hold", "Roll", "Lift"} /\ w_self.offset = None)
              => Unwrap(w_ret) = FFromInt(-8)
        /\ w_self.note \in {"Fake", "HoldEnd"} => Unwrap(w_ret) = Zero
        /\ (w_self.note = "Mine" /\ w_self.offset # None) => Unwrap(w_ret) = FFromInt(-8)
        /\ (w_self.note = "Mine" /\ w_self.offset = None) => Unwrap(w_ret) = Zero

\* C7 witness: wife was called on a Mine hit 35 ms late with ts = 1/2 and
\* returned -8.
C7_Witness ==
    /\ w_self = OffsetInfo(Some(35), "Mine")
    /\ w_ts = F64(0, <<1>>, -1)
    /\ w_ret = Some(FFromInt(-8))

\* C8: for a Tap, wife at offset o equals wife at offset -o, and wife at
\* offset 0 is 2, for every ts (in every build: whichever value its powf
\* returns, the two calls pass it the same argument).
C8_WifeSymmetricWithPeak2 ==
    (IsSome(w_ret) /\ w_self.note = "Tap" /\ w_self.offset # None) =>
        /\ Unwrap(w_ret) = wife(OffsetInfo(Some(0 - Unwrap(w_self.offset)), "Tap"), w_ts)
        /\ Unwrap(w_self.offset) = 0 => Unwrap(w_ret) = FFromInt(2)

\* C8 witness: wife was called on a Tap hit 175 ms early with ts = 2, where
\* powf has two outcomes and the build returns the larger one, and returned a
\* value strictly between -8 and 2.
C8_Witness ==
    /\ w_self = OffsetInfo(Some(-175), "Tap")
    /\ w_ts = FFromInt(2)
    /\ \E x \in DOMAIN powf : \E other \in Pow2(x) : FLt(other, powf[x])
    /\ IsSome(w_ret)
    /\ FLt(FFromInt(-8), Unwrap(w_ret))
    /\ FLt(Unwrap(w_ret), FFromInt(2))

----------------------------------------------------------------------------
(* Properties of the parser (ParseSpec).                                   *)

\* The rows the claim gives a run of lines: its non-empty lines, the n-th of k
\* at Position n/k.
ClaimedMeasure(run) ==
    LET rows == SelectSeq(run, LAMBDA l : l # <<>>)
    IN  [k \in 1..Len(rows) |-> <<Ratio(k - 1, Len(rows)), parse_line(rows[k])>>]

\* C9: the rows of a measure are the non-empty lines between separator lines,
\* the n-th of k rows at Position n/k in lowest terms; a blank line is no row
\* and does not change k.
C9_RowsAreNonEmptyLines ==
    IsSome(parsed) =>
        LET runs == Split(Skip(Lines(contents, <<>>), 5), <<>>)
        IN  Unwrap(parsed) = [m \in 1..Len(runs) |-> ClaimedMeasure(runs[m])]

====
